---- MODULE Spec2Model ----
(***************************************************************************)
(* Teleportation-based BB84 QKD simulation (teleport_qkd_custom.py).       *)
(*                                                                         *)
(* run_single_round assembles a 3-qubit / 3-clbit circuit as a list of     *)
(* instructions and hands it to the simulator with shots=1.  The circuit   *)
(* is Clifford with real amplitudes, so the simulator is modelled exactly  *)
(* with unnormalised integer state vectors: index j in 0..7 is the basis   *)
(* state whose qubit k has value (j \div 2^k) % 2, a Hadamard maps (a, b)  *)
(* to (a+b, a-b) and the probability of a classical outcome is the squared *)
(* norm of its branch divided by the sum over all branches.                *)
(***************************************************************************)
EXTENDS Integers, Sequences, FiniteSets, TLC

\* ---------------------------------------------------------------- bounds
MaxRounds == 2

\* ------------------------------------------------------------ data model
Bit == {0, 1}
Basis == {"Z", "X"}
\* Python's None is the empty tuple and any other value x is <<x>>
None == << >>
Some(x) == <<x>>
Val(o) == o[1]


Pow2(k) == IF k = 0 THEN 1 ELSE IF k = 1 THEN 2 ELSE 4

BitOf(j, k) == (j \div Pow2(k)) % 2

Flip(j, k) == IF BitOf(j, k) = 0 THEN j + Pow2(k) ELSE j - Pow2(k)

\* A state vector is the tuple of its 8 amplitudes, psi[j + 1] the amplitude
\* of basis state j; Vec builds one from the amplitude of each basis state.
Vec(f(_)) == <<f(0), f(1), f(2), f(3), f(4), f(5), f(6), f(7)>>

Amp(psi, j) == psi[j + 1]

\* QuantumCircuit(qr, cr): all qubits |0>, all clbits 0; clbit k is c[k + 1]
ZeroState == <<1, 0, 0, 0, 0, 0, 0, 0>>
ZeroClbits == <<0, 0, 0>>

\* ------------------------------------------------------- circuit building
\* An instruction appended to qc: gate name, first operand, second operand
\* (for "measure": qubit, clbit; for one-qubit gates the second is unused).
Instr(g, a, b) == [g |-> g, a |-> a, b |-> b]

Gh(q) == Instr("h", q, 0)
Gx(q) == Instr("x", q, 0)
Gcx(c, t) == Instr("cx", c, t)
Gcz(c, t) == Instr("cz", c, t)
Gmeasure(q, cb) == Instr("measure", q, cb)

prepare_bb84_state(q, bit, basis) ==
    IF basis = "Z"
    THEN (IF bit = 1 THEN <<Gx(q)>> ELSE << >>)
    ELSE IF basis = "X"
         THEN (IF bit = 0 THEN <<Gh(q)>> ELSE <<Gx(q), Gh(q)>>)
         ELSE << >>

bell_pair(a, b) == <<Gh(a), Gcx(a, b)>>

\* eve is "none" when the attack branch is not taken, else eve_basis
EveChoice == {"none", "Z", "X"}

EveAttack(eve) ==
    IF eve = "none" THEN << >>
    ELSE (IF eve = "X" THEN <<Gh(1)>> ELSE << >>)
         \o <<Gmeasure(1, 0)>>
         \o (IF eve = "X" THEN <<Gh(1)>> ELSE << >>)

BellMeasurement == <<Gcx(0, 1), Gh(0), Gmeasure(0, 0), Gmeasure(1, 1)>>

\* (variant: the two controls exchanged)
BobCorrectionsSwapped == <<Gcx(0, 2), Gcz(1, 2)>>

BobCorrections == <<Gcx(1, 2), Gcz(0, 2)>>

BobMeasure(bob_basis) ==
    (IF bob_basis = "X" THEN <<Gh(2)>> ELSE << >>) \o <<Gmeasure(2, 2)>>

BuildCircuit(alice_bit, alice_basis, bob_basis, eve) ==
    bell_pair(1, 2)
    \o EveAttack(eve)
    \o prepare_bb84_state(0, alice_bit, alice_basis)
    \o BellMeasurement
    \o BobCorrections
    \o BobMeasure(bob_basis)

\* ------------------------------------------------------------- simulator
ApplyH(psi, q) ==
    LET f(j) == IF BitOf(j, q) = 0
                THEN Amp(psi, j) + Amp(psi, Flip(j, q))
                ELSE Amp(psi, Flip(j, q)) - Amp(psi, j)
    IN  Vec(f)

ApplyX(psi, q) ==
    LET f(j) == Amp(psi, Flip(j, q)) IN Vec(f)

ApplyCX(psi, c, t) ==
    LET f(j) == IF BitOf(j, c) = 1 THEN Amp(psi, Flip(j, t)) ELSE Amp(psi, j)
    IN  Vec(f)

ApplyZ(psi, q) ==
    LET f(j) == IF BitOf(j, q) = 1 THEN 0 - Amp(psi, j) ELSE Amp(psi, j)
    IN  Vec(f)

ApplyCZ(psi, c, t) ==
    LET f(j) == IF BitOf(j, c) = 1 /\ BitOf(j, t) = 1
                THEN 0 - Amp(psi, j) ELSE Amp(psi, j)
    IN  Vec(f)

\* projection of psi on "qubit q has value m" (the collapse of a measurement)
Project(psi, q, m) ==
    LET f(j) == IF BitOf(j, q) = m THEN Amp(psi, j) ELSE 0 IN Vec(f)

Norm2(psi) ==
    psi[1] * psi[1] + psi[2] * psi[2] + psi[3] * psi[3] + psi[4] * psi[4]
    + psi[5] * psi[5] + psi[6] * psi[6] + psi[7] * psi[7] + psi[8] * psi[8]

\* unitary instructions; a classically conditioned gate ("if_x", "if_z":
\* clbit a, qubit b) acts only when the clbit holds 1
ApplyGate(ins, psi, c) ==
    CASE ins.g = "h" -> ApplyH(psi, ins.a)
      [] ins.g = "x" -> ApplyX(psi, ins.a)
      [] ins.g = "cx" -> ApplyCX(psi, ins.a, ins.b)
      [] ins.g = "cz" -> ApplyCZ(psi, ins.a, ins.b)
      [] ins.g = "if_x" -> (IF c[ins.a + 1] = 1 THEN ApplyX(psi, ins.b) ELSE psi)
      [] ins.g = "if_z" -> (IF c[ins.a + 1] = 1 THEN ApplyZ(psi, ins.b) ELSE psi)

\* all contents of the clbit register, and the number 0..7 of each
Clbits == {<<c0, c1, c2>> : c0 \in Bit, c1 \in Bit, c2 \in Bit}

Enc(c) == c[1] + 2 * c[2] + 4 * c[3]

\* Weight of every final register content after running qc[k..] from (psi, c),
\* as a tuple indexed by Enc + 1: a measurement splits into the two collapsed
\* branches, each writing its clbit.
RECURSIVE Run(_, _, _, _)
Run(qc, k, psi, c) ==
    IF k > Len(qc)
    THEN LET f(j) == IF j = Enc(c) THEN Norm2(psi) ELSE 0 IN Vec(f)
    ELSE IF qc[k].g = "measure"
         THEN LET r0 == Run(qc, k + 1, Project(psi, qc[k].a, 0),
                            [c EXCEPT ![qc[k].b + 1] = 0])
                  r1 == Run(qc, k + 1, Project(psi, qc[k].a, 1),
                            [c EXCEPT ![qc[k].b + 1] = 1])
                  f(j) == Amp(r0, j) + Amp(r1, j)
              IN  Vec(f)
         ELSE Run(qc, k + 1, ApplyGate(qc[k], psi, c), c)

\* outcome weights of one circuit started from |000>, c = 000
Dist(qc) == Run(qc, 1, ZeroState, ZeroClbits)

Weight(d, c) == d[Enc(c) + 1]

Total(d) == d[1] + d[2] + d[3] + d[4] + d[5] + d[6] + d[7] + d[8]

\* the circuits run_single_round can build, by what decides them
Circuits == [alice_bit : Bit, alice_basis : Basis, bob_basis : Basis, eve : EveChoice]

\* the backend's outcome weights for each of them (t @@ t is t, tabulated)
DistTable ==
    LET t == [r \in Circuits |->
                 Dist(BuildCircuit(r.alice_bit, r.alice_basis, r.bob_basis, r.eve))]
    IN  t @@ t

\* backend.run(..., shots=1).result().get_counts(): one sampled outcome,
\* keyed by the register written with clbit 2 first and clbit 0 last
Ch(b) == IF b = 1 THEN "1" ELSE "0"

get_counts_key(c) == <<Ch(c[3]), Ch(c[2]), Ch(c[1])>>

\* key.replace(' ', '')
StripSpaces(key) == SelectSeq(key, LAMBDA ch : ch # " ")

\* int(key[-1])
LastBit(key) == IF key[Len(key)] = "1" THEN 1 ELSE 0

\* random.random() < 0.5 and random.choice(['Z', 'X']): weight out of 4
EveDen == 4

\* (variant: Eve intercepts every round)
EveWeightAlways(use_eve, eve) ==
    IF use_eve
    THEN (IF eve = "none" THEN 0 ELSE 2)
    ELSE (IF eve = "none" THEN 4 ELSE 0)

EveWeight(use_eve, eve) ==
    IF use_eve
    THEN (IF eve = "none" THEN 2 ELSE 1)
    ELSE (IF eve = "none" THEN 4 ELSE 0)

\* what lines 32-79 of one call of run_single_round can produce: Eve's branch
\* (eve), the register at the end of the sampled shot (c) and the key of the
\* single entry of the counts dict
ShotOutcomes(alice_bit, alice_basis, bob_basis, e) ==
    {c \in Clbits :
        Weight(DistTable[[alice_bit |-> alice_bit, alice_basis |-> alice_basis,
                          bob_basis |-> bob_basis, eve |-> e]], c) > 0}

RoundOutcomes(alice_bit, alice_basis, bob_basis, eve_on) ==
    UNION {{[eve |-> e, c |-> c, key |-> get_counts_key(c)] :
               c \in ShotOutcomes(alice_bit, alice_basis, bob_basis, e)} :
           e \in {x \in EveChoice : EveWeight(eve_on, x) > 0}}

\* lines 81-83: the bit run_single_round returns for a counts key
measured_bit(key) == LastBit(StripSpaces(key))

\* lines 70-75: the flag after the diagnostic block has run
\* (variant: the flag is not cleared)
DebugKept(flag) == flag

DebugAfterRender(flag) == FALSE

\* ---------------------------------------------------------- run_protocol
Min(a, b) == IF a < b THEN a ELSE b

\* the sifting loop over zip(alice_bases, vals, bob_bases, ...), from index k
RECURSIVE SiftFrom(_, _, _, _)
SiftFrom(bases_a, vals, bases_b, k) ==
    IF k > Min(Len(bases_a), Min(Len(vals), Len(bases_b)))
    THEN << >>
    ELSE (IF bases_a[k] = bases_b[k] THEN <<vals[k]>> ELSE << >>)
         \o SiftFrom(bases_a, vals, bases_b, k + 1)

\* (variant: no basis comparison)
SiftKeepAll(bases_a, vals, bases_b) == vals

Sift(bases_a, vals, bases_b) == SiftFrom(bases_a, vals, bases_b, 1)

\* sum(1 for x, y in zip(sifted_alice, sifted_bob) if x != y), from index k
RECURSIVE ErrorsFrom(_, _, _)
ErrorsFrom(sa, sb, k) ==
    IF k > Min(Len(sa), Len(sb)) THEN 0
    ELSE (IF sa[k] # sb[k] THEN 1 ELSE 0) + ErrorsFrom(sa, sb, k + 1)

\* (variant: 0 instead of None on an empty sifted key)
QberZeroOnEmpty(sa, sb) ==
    IF Len(sa) = 0 THEN Some([num |-> 0, den |-> 1])
    ELSE Some([num |-> ErrorsFrom(sa, sb, 1), den |-> Len(sa)])

\* qber: None, or the quotient errors / len(sifted_alice) kept as a fraction
Qber(sa, sb) ==
    IF Len(sa) = 0 THEN None
    ELSE Some([num |-> ErrorsFrom(sa, sb, 1), den |-> Len(sa)])

ProtocolResult(n, a_bits, a_bases, b_bases, b_results) ==
    LET sa == Sift(a_bases, a_bits, b_bases)
        sb == Sift(a_bases, b_results, b_bases)
    IN  [raw_rounds |-> n,
         sifted_length |-> Len(sa),
         qber |-> Qber(sa, sb),
         alice_bits |-> a_bits,
         bob_results |-> b_results,
         alice_bases |-> a_bases,
         bob_bases |-> b_bases,
         sifted_alice |-> sa,
         sifted_bob |-> sb]

\* ---------------------------------------------------------------- inputs
SeqsOfLen(S, n) == [1 .. n -> S]

DropLast(s) == SubSeq(s, 1, Len(s) - 1)

\* custom_inputs dicts for n rounds: three arrays of length n
FullInputs(n) ==
    {Some([alice_bits |-> ab, alice_bases |-> as, bob_bases |-> bs]) :
        ab \in SeqsOfLen(Bit, n), as \in SeqsOfLen(Basis, n),
        bs \in SeqsOfLen(Basis, n)}

\* ... and dicts in which one array is one entry short (Bob's bases taken
\* equal to Alice's)
ShortKinds == {"alice_bits", "alice_bases", "bob_bases"}

ShortInputs(n) ==
    IF n = 0 THEN {}
    ELSE {Some([alice_bits |-> IF short = "alice_bits" THEN DropLast(ab) ELSE ab,
                alice_bases |-> IF short = "alice_bases" THEN DropLast(as) ELSE as,
                bob_bases |-> IF short = "bob_bases" THEN DropLast(as) ELSE as]) :
            ab \in SeqsOfLen(Bit, n), as \in SeqsOfLen(Basis, n),
            short \in ShortKinds}

CustomInputs(n) == FullInputs(n) \cup ShortInputs(n)

\* ----------------------------------------------------------------- state
VARIABLES
    pc,             \* "idle", "loop", "executed" (backend returned), "done", "error"
    num_rounds, use_eve, custom_inputs,
    alice_bits, alice_bases, bob_bases, bob_results,
    round,          \* locals of the running run_single_round, or None
    result,         \* the dict returned by the call, None while it runs
    DEBUG_CIRCUIT,  \* the module-level flag _DEBUG_CIRCUIT
    first_done,     \* some round of this process has passed the diagnostic block
    renders,        \* how many rounds of this process rendered their circuit
    prev            \* what the honest call that the running call repeats returned

vars == <<pc, num_rounds, use_eve, custom_inputs, alice_bits,
          alice_bases, bob_bases, bob_results, round, result, DEBUG_CIRCUIT,
          first_done, renders, prev>>

\* the loop index i of run_protocol
i == Len(bob_results)

Init ==
    /\ pc = "idle"
    /\ num_rounds = 0
    /\ use_eve = FALSE
    /\ custom_inputs = None
    /\ alice_bits = << >>
    /\ alice_bases = << >>
    /\ bob_bases = << >>
    /\ bob_results = << >>
    /\ round = None
    /\ result = None
    /\ DEBUG_CIRCUIT = TRUE
    /\ first_done = FALSE
    /\ renders = 0
    /\ prev = None

\* line 88
Enter(n, eve, ci) ==
    /\ pc' = "loop"
    /\ num_rounds' = n
    /\ use_eve' = eve
    /\ custom_inputs' = ci
    /\ alice_bits' = << >>
    /\ alice_bases' = << >>
    /\ bob_bases' = << >>
    /\ bob_results' = << >>
    /\ result' = None
    /\ UNCHANGED <<round, DEBUG_CIRCUIT, first_done, renders>>

\* run_protocol(n, eve, ci) is called
Call(n, eve, ci) ==
    /\ pc = "idle"
    /\ Enter(n, eve, ci)
    /\ prev' = None

\* an honest run_protocol call on custom inputs has returned and the same
\* call is made again
RepeatCall ==
    /\ pc = "done"
    /\ custom_inputs # None
    /\ ~use_eve
    /\ Enter(num_rounds, use_eve, custom_inputs)
    /\ prev' = result

\* lines 32-79 for the round's inputs: the circuit is built with or without
\* Eve's block, the diagnostic block runs, the backend returns the counts
Execute(a_bit, a_basis, b_basis) ==
    \E o \in RoundOutcomes(a_bit, a_basis, b_basis, use_eve) :
        /\ round' = Some([alice_bit |-> a_bit, alice_basis |-> a_basis,
                          bob_basis |-> b_basis, eve |-> o.eve, c |-> o.c,
                          key |-> o.key])
        /\ first_done' = TRUE
        /\ renders' = IF DEBUG_CIRCUIT THEN renders + 1 ELSE renders
        /\ DEBUG_CIRCUIT' = IF DEBUG_CIRCUIT THEN DebugAfterRender(DEBUG_CIRCUIT)
                            ELSE DEBUG_CIRCUIT
        /\ pc' = "executed"
        /\ UNCHANGED <<num_rounds, use_eve, custom_inputs, alice_bits,
                       alice_bases, bob_bases, bob_results, result, prev>>

\* lines 91-94 and 100
ExecuteCustom ==
    /\ pc = "loop"
    /\ i < num_rounds
    /\ custom_inputs # None
    /\ i < Len(Val(custom_inputs).alice_bits)
    /\ i < Len(Val(custom_inputs).alice_bases)
    /\ i < Len(Val(custom_inputs).bob_bases)
    /\ Execute(Val(custom_inputs).alice_bits[i + 1],
               Val(custom_inputs).alice_bases[i + 1],
               Val(custom_inputs).bob_bases[i + 1])

\* lines 95-98 and 100
ExecuteRandom ==
    /\ pc = "loop"
    /\ i < num_rounds
    /\ custom_inputs = None
    /\ \E a_bit \in Bit, a_basis \in Basis, b_basis \in Basis :
           Execute(a_bit, a_basis, b_basis)

\* lines 92-94: custom_inputs[...][i] raises IndexError
RoundIndexError ==
    /\ pc = "loop"
    /\ i < num_rounds
    /\ custom_inputs # None
    /\ \/ i >= Len(Val(custom_inputs).alice_bits)
       \/ i >= Len(Val(custom_inputs).alice_bases)
       \/ i >= Len(Val(custom_inputs).bob_bases)
    /\ pc' = "error"
    /\ UNCHANGED <<num_rounds, use_eve, custom_inputs, alice_bits,
                   alice_bases, bob_bases, bob_results, round, result,
                   DEBUG_CIRCUIT, first_done, renders, prev>>

\* lines 81-85 and 100-104: the key is parsed, the round is appended
AppendRound ==
    /\ pc = "executed"
    /\ alice_bits' = Append(alice_bits, Val(round).alice_bit)
    /\ alice_bases' = Append(alice_bases, Val(round).alice_basis)
    /\ bob_bases' = Append(bob_bases, Val(round).bob_basis)
    /\ bob_results' = Append(bob_results, measured_bit(Val(round).key))
    /\ round' = None
    /\ pc' = "loop"
    /\ UNCHANGED <<num_rounds, use_eve, custom_inputs, result,
                   DEBUG_CIRCUIT, first_done, renders, prev>>

\* lines 106-129: the loop is over: sifting, QBER, return
Finish ==
    /\ pc = "loop"
    /\ i = num_rounds
    /\ result' = Some(ProtocolResult(num_rounds, alice_bits, alice_bases,
                                     bob_bases, bob_results))
    /\ pc' = "done"
    /\ UNCHANGED <<num_rounds, use_eve, custom_inputs, alice_bits,
                   alice_bases, bob_bases, bob_results, round, DEBUG_CIRCUIT,
                   first_done, renders, prev>>

\* the caller is done with what the call returned or raised; nothing of the
\* call but the module-level flag outlives it
Return ==
    /\ pc \in {"done", "error"}
    /\ pc' = "idle"
    /\ num_rounds' = 0
    /\ use_eve' = FALSE
    /\ custom_inputs' = None
    /\ alice_bits' = << >>
    /\ alice_bases' = << >>
    /\ bob_bases' = << >>
    /\ bob_results' = << >>
    /\ result' = None
    /\ round' = None
    /\ prev' = None
    /\ UNCHANGED <<DEBUG_CIRCUIT, first_done, renders>>

\* some caller calls run_protocol with random or with custom inputs
CallAny ==
    /\ pc = "idle"
    /\ \E n \in 0 .. MaxRounds, eve \in BOOLEAN :
           \E ci \in {None} \cup CustomInputs(n) : Call(n, eve, ci)

Next ==
    \/ CallAny
    \/ RepeatCall
    \/ ExecuteCustom
    \/ ExecuteRandom
    \/ RoundIndexError
    \/ AppendRound
    \/ Finish
    \/ Return

Spec == Init /\ [][Next]_vars

\* ------------------------------------------------------------ properties
CircuitOf(r) ==
    [alice_bit |-> r.alice_bit, alice_basis |-> r.alice_basis,
     bob_basis |-> r.bob_basis, eve |-> r.eve]

\* the outcome of the ReceiverMeasurement (slot c[2]) and the bit that
\* run_single_round returns, for a final register content
ReceiverBit(c) == c[3]
ReturnedBit(c) == measured_bit(get_counts_key(c))

\* C1 (stated as claimed): in an honest call every appended round with
\* alice_basis = bob_basis has bob_results = alice_bits, and an honest call
\* that returns with at least one sifted round returns qber = 0.
C1_NoiselessFidelity ==
    /\ ~use_eve =>
          \A k \in 1 .. Len(bob_results) :
              alice_bases[k] = bob_bases[k] => bob_results[k] = alice_bits[k]
    /\ (pc = "done" /\ ~use_eve /\ Val(result).sifted_length > 0) =>
          Val(Val(result).qber).num = 0

\* C2 (stated as claimed): whenever the backend has returned, the bit that
\* run_single_round returns for the counts key is the content of slot c[2].
C2_ReturnsReceiverSlot ==
    pc = "executed" => measured_bit(Val(round).key) = ReceiverBit(Val(round).c)

\* the round indices on which the bases agree, and the k-th of them
Matching(r) ==
    {m \in 1 .. Len(r.alice_bases) : r.alice_bases[m] = r.bob_bases[m]}

NthMatching(r, k) ==
    CHOOSE m \in Matching(r) : Cardinality({j \in Matching(r) : j <= m}) = k

\* C3: every returned result has as many sifted entries on both sides as
\* rounds with equal bases, sifted_length is that number, and the k-th sifted
\* entries are alice_bits / bob_results of the k-th such round.
C3_SiftingInvariant ==
    pc = "done" =>
        LET r == Val(result)
            n == Cardinality(Matching(r))
        IN  /\ r.raw_rounds = num_rounds
            /\ Len(r.alice_bases) = num_rounds
            /\ Len(r.bob_bases) = num_rounds
            /\ Len(r.alice_bits) = num_rounds
            /\ Len(r.bob_results) = num_rounds
            /\ Len(r.sifted_alice) = n
            /\ Len(r.sifted_bob) = n
            /\ r.sifted_length = n
            /\ \A k \in 1 .. n :
                  /\ r.sifted_alice[k] = r.alice_bits[NthMatching(r, k)]
                  /\ r.sifted_bob[k] = r.bob_results[NthMatching(r, k)]

\* a returned two-round result whose only sifted round is the second one
C3_Witness ==
    /\ pc = "done"
    /\ num_rounds = 2
    /\ Val(result).alice_bases[1] # Val(result).bob_bases[1]
    /\ Val(result).alice_bases[2] = Val(result).bob_bases[2]
    /\ Val(result).sifted_length = 1
    /\ Val(result).alice_bits[1] # Val(result).alice_bits[2]

\* C4: in every returned result qber is None exactly when sifted_alice is
\* empty (so for num_rounds = 0, which returns and never raises); otherwise it
\* is the number of positions where the sifted keys differ over the sifted
\* length, with 0 <= errors <= length.
C4_QberDefinition ==
    /\ pc = "error" => num_rounds > 0
    /\ pc = "done" =>
        LET r == Val(result)
            E == {k \in 1 .. Len(r.sifted_alice) :
                     r.sifted_alice[k] # r.sifted_bob[k]}
        IN  /\ (r.qber = None) <=> (Len(r.sifted_alice) = 0)
            /\ num_rounds = 0 => (r.sifted_length = 0 /\ r.qber = None)
            /\ r.qber # None =>
                  /\ Val(r.qber).num = Cardinality(E)
                  /\ Val(r.qber).den = Len(r.sifted_alice)
                  /\ 0 <= Val(r.qber).num
                  /\ Val(r.qber).num <= Val(r.qber).den
                  /\ Val(r.qber).den > 0

\* a returned result with two sifted rounds and one error
C4_Witness ==
    /\ pc = "done"
    /\ Val(result).qber # None
    /\ Val(Val(result).qber).num = 1
    /\ Val(Val(result).qber).den = 2

\* C5 (stated as claimed): a call that fails on short custom arrays has
\* executed no round: no run_single_round result was appended before the error.
C5_FailFast ==
    pc = "error" => Len(bob_results) = 0

\* C6 (stated as claimed): an honest call on custom inputs that repeats an
\* honest call on the same inputs returns the same bob_results and qber.
C6_Determinism ==
    (pc = "done" /\ prev # None) =>
        /\ Val(result).bob_results = Val(prev).bob_results
        /\ Val(result).qber = Val(prev).qber

\* --- probabilities of one round --------------------------------------
\* weight in d of a set S of register contents
RECURSIVE SetWeight(_, _)
SetWeight(d, S) ==
    IF S = {} THEN 0
    ELSE LET c == CHOOSE x \in S : TRUE
         IN  Weight(d, c) + SetWeight(d, S \ {c})

\* weight in d of the registers c whose bit Out(c) differs from alice_bit
WrongWeight(d, alice_bit, Out(_)) ==
    SetWeight(d, {c \in Clbits : Out(c) # alice_bit})

DistFor(alice_bit, alice_basis, bob_basis, e) ==
    DistTable[[alice_bit |-> alice_bit, alice_basis |-> alice_basis,
               bob_basis |-> bob_basis, eve |-> e]]

\* P(Out # alice_bit) for one round, as <<numerator, denominator>>: Eve's
\* branch e has probability EveWeight / EveDen, and within it a register c
\* has probability Weight / Total
WrongProb(alice_bit, alice_basis, bob_basis, eve_on, Out(_)) ==
    LET dn == DistFor(alice_bit, alice_basis, bob_basis, "none")
        dz == DistFor(alice_bit, alice_basis, bob_basis, "Z")
        dx == DistFor(alice_bit, alice_basis, bob_basis, "X")
    IN  <<EveWeight(eve_on, "none") * WrongWeight(dn, alice_bit, Out)
              * Total(dz) * Total(dx)
          + EveWeight(eve_on, "Z") * WrongWeight(dz, alice_bit, Out)
              * Total(dn) * Total(dx)
          + EveWeight(eve_on, "X") * WrongWeight(dx, alice_bit, Out)
              * Total(dn) * Total(dz),
          EveDen * Total(dn) * Total(dz) * Total(dx)>>

EveRoundOnEqualBases ==
    /\ pc = "executed"
    /\ use_eve
    /\ Val(round).alice_basis = Val(round).bob_basis

\* C7 (stated as claimed): in a round with Eve and equal bases the returned
\* bit differs from alice_bit with probability about 0.25 (within 0.05).
C7_DisturbanceQuarter ==
    EveRoundOnEqualBases =>
        LET r == Val(round)
            p == WrongProb(r.alice_bit, r.alice_basis, r.bob_basis, TRUE, ReturnedBit)
        IN  /\ 20 * p[2] <= 100 * p[1]
            /\ 100 * p[1] <= 30 * p[2]

\* C7 (amended): in such a round the ReceiverMeasurement outcome c[2] differs
\* from alice_bit with probability exactly 1/8, and the returned bit (slot
\* c[0]) differs from alice_bit with probability exactly 1/2.
C7_DisturbanceEighth ==
    EveRoundOnEqualBases =>
        LET r == Val(round)
            p2 == WrongProb(r.alice_bit, r.alice_basis, r.bob_basis, TRUE, ReceiverBit)
            p0 == WrongProb(r.alice_bit, r.alice_basis, r.bob_basis, TRUE, ReturnedBit)
        IN  /\ 8 * p2[1] = p2[2]
            /\ 2 * p0[1] = p0[2]

\* a round in which Eve measured in the other basis and Bob's qubit came out
\* wrong
C7_Witness ==
    /\ EveRoundOnEqualBases
    /\ Val(round).eve \notin {"none", Val(round).alice_basis}
    /\ ReceiverBit(Val(round).c) # Val(round).alice_bit

\* C8: the flag is true exactly until the first round of the process has
\* passed the diagnostic block, exactly that round rendered, the flag never
\* goes back to true and no later round renders.
C8_OneShotRender ==
    /\ [](/\ DEBUG_CIRCUIT = ~first_done
          /\ renders = IF first_done THEN 1 ELSE 0)
    /\ [][/\ ~DEBUG_CIRCUIT => ~DEBUG_CIRCUIT'
          /\ renders' # renders => (~first_done /\ DEBUG_CIRCUIT /\ ~DEBUG_CIRCUIT')]_vars

\* the backend has returned for the second round of a call that repeats an
\* earlier call: a later round of a later call, and still one render
C8_Witness ==
    /\ pc = "executed"
    /\ prev # None
    /\ Len(bob_results) = 1
    /\ renders = 1
    /\ ~DEBUG_CIRCUIT

\* the literal formulation of Bob's corrections: flip q2 if c1 = 1, phase-flip
\* q2 if c0 = 1
LiteralCorrections == <<Instr("if_x", 1, 2), Instr("if_z", 0, 2)>>

LiteralCircuit(alice_bit, alice_basis, bob_basis, eve) ==
    bell_pair(1, 2)
    \o EveAttack(eve)
    \o prepare_bb84_state(0, alice_bit, alice_basis)
    \o BellMeasurement
    \o LiteralCorrections
    \o BobMeasure(bob_basis)

LiteralTable ==
    LET t == [r \in Circuits |->
                 Dist(LiteralCircuit(r.alice_bit, r.alice_basis, r.bob_basis, r.eve))]
    IN  t @@ t

\* C9: for the circuit of every executed round, each final register content
\* (c0, c1, c2), and so each (c0, c1, returned bit), has the same probability
\* under the circuit as built and under the literal formulation.
C9_DeferredCorrection ==
    pc = "executed" =>
        LET built == DistTable[CircuitOf(Val(round))]
            literal == LiteralTable[CircuitOf(Val(round))]
        IN  /\ \A c \in Clbits :
                  Weight(built, c) * Total(literal) = Weight(literal, c) * Total(built)
            /\ \A c0 \in Bit, c1 \in Bit, b \in Bit :
                  LET S == {c \in Clbits : c[1] = c0 /\ c[2] = c1 /\ ReturnedBit(c) = b}
                  IN  SetWeight(built, S) * Total(literal)
                      = SetWeight(literal, S) * Total(built)

\* a round where Eve measured in X and both corrections fire
C9_Witness ==
    /\ pc = "executed"
    /\ Val(round).eve = "X"
    /\ Val(round).c[1] = 1
    /\ Val(round).c[2] = 1

\* C10 (stated as claimed): in a round with equal bases, the returned bit is
\* alice_bit when Eve measured in Alice's basis, and a returned bit different
\* from alice_bit occurs only when Eve measured in the other basis.
C10_EveDisturbsOnlyOnMismatch ==
    (pc = "executed" /\ Val(round).alice_basis = Val(round).bob_basis) =>
        LET r == Val(round)
        IN  /\ r.eve = r.alice_basis => measured_bit(r.key) = r.alice_bit
            /\ measured_bit(r.key) # r.alice_bit =>
                  r.eve \notin {"none", r.alice_basis}
====
